---- MODULE Spec2Model ----
(***************************************************************************)
(* Model of src/src/fast_shm_cache.cc: a fixed-capacity open-addressed     *)
(* key/value table that lives in a named POSIX shared-memory object.       *)
(*                                                                         *)
(* Byte strings (std::string, char buffers) are sequences of bytes 0..255. *)
(* A slot's char buffer is represented by the bytes before its first NUL:  *)
(* every write to a buffer covers all of it (strncpy pads with NULs up to  *)
(* MAX-1 and the last byte is set to NUL; memset zeroes it), so the bytes  *)
(* behind the first NUL are always NUL.  The slot's timestamp is written   *)
(* by Set and read by no handler; it is not part of the state.             *)
(***************************************************************************)
EXTENDS Integers, Sequences, FiniteSets, TLC

\* ------------------------------------------------------------ constants

MAX_KEY_SIZE == 64

MAX_VALUE_SIZE == 256

\* sizeof(SharedMemoryHeader) and sizeof(CacheSlot) on x86-64 Linux (glibc):
\* size_t 8 + atomic<size_t> 8 + pthread_mutex_t 40, and
\* atomic<bool> 1 + key 64 + value 256 (+7 padding) + atomic<uint64_t> 8 + mutex 40.
HeaderSize == 56

SlotSize == 376

\* ------------------------------------------------------------ bounds

\* Largest capacity (maxKeys) a table is created with.
MaxCapacity == 3

\* Number of processes (engine instances) attached to the name.
NumProcs == 2

Procs == 1..NumProcs

Capacities == 2..MaxCapacity

\* ------------------------------------------------------------ byte strings

Byte == 0..255

\* The bytes of s before its first NUL: what s.c_str() denotes as a C string,
\* and what std::string(buf) / Napi::String::New(env, buf) read from a buffer.
CStr(s) ==
    LET nuls == {i \in 1..Len(s) : s[i] = 0}
    IN  IF nuls = {} THEN s
        ELSE SubSeq(s, 1, (CHOOSE i \in nuls : \A j \in nuls : i <= j) - 1)

\* The first n bytes of s (all of s when it is shorter).
Take(s, n) == SubSeq(s, 1, IF Len(s) < n THEN Len(s) ELSE n)

\* strncpy(buf, src.c_str(), n) followed by buf[n] = '\0': the buffer then holds
\* the first n bytes of the C string, NUL-padded.
Strncpy(src, n) == Take(CStr(src), n)

\* strncmp(buf, key.c_str(), n) == 0: the two C strings agree on their first n bytes.
StrncmpEq(buf, src, n) == Take(CStr(buf), n) = Take(CStr(src), n)

\* ------------------------------------------------------------ FNV-1a hash

\* A uint32_t is kept as two 16-bit halves <<hi, lo>>.
Half == 65536

RECURSIVE XorBits(_, _, _)
XorBits(a, b, n) ==
    IF n = 0 THEN 0
    ELSE (((a % 2) + (b % 2)) % 2) + 2 * XorBits(a \div 2, b \div 2, n - 1)

\* static_cast<uint32_t>(c) of a (signed) char: bytes >= 128 sign-extend.
CharToU32(c) == IF c >= 128 THEN <<65535, 65280 + c>> ELSE <<0, c>>

U32Xor(h, x) == <<XorBits(h[1], x[1], 16), XorBits(h[2], x[2], 16)>>

\* hash *= 0x01000193 (mod 2^32); 0x01000193 = 256 * 2^16 + 403.
U32MulPrime(h) ==
    LET low == h[2] * 403
    IN  <<((low \div Half) + (h[1] * 403) + (h[2] * 256)) % Half, low % Half>>

\* 0x811c9dc5 = 33052 * 2^16 + 40389
FNV_OFFSET == <<33052, 40389>>

\* The loop body: hash ^= static_cast<uint32_t>(c); hash *= FNV_32_PRIME.
HashStep(h, c) == U32MulPrime(U32Xor(h, CharToU32(c)))

\* The loop over key[lo..hi], in order.  The range is split in halves and the
\* first half's result is computed (the test on it) before the second half
\* starts from it, which keeps TLC's evaluation shallow for a 63-byte key.
RECURSIVE HashFrom(_, _, _, _)
HashFrom(h, key, lo, hi) ==
    IF lo > hi THEN h
    ELSE IF lo = hi THEN HashStep(h, key[lo])
    ELSE LET mid  == (lo + hi) \div 2
             left == HashFrom(h, key, lo, mid)
         IN  IF left[1] >= 0 THEN HashFrom(left, key, mid + 1, hi) ELSE left

Hash(key) == HashFrom(FNV_OFFSET, key, 1, Len(key))

\* hash % max_keys
U32Mod(h, m) == ((h[1] % m) * Half + h[2]) % m

StartIndex(key, max_keys) == U32Mod(Hash(key), max_keys)

\* ------------------------------------------------------------ size_t counter

\* std::atomic<size_t> num_entries: 64 bits, kept as four 16-bit limbs, least
\* significant first; fetch_add and fetch_sub wrap modulo 2^64.
U64Zero == <<0, 0, 0, 0>>

RECURSIVE U64AddAt(_, _)
U64AddAt(c, i) ==
    IF i > 4 THEN c
    ELSE IF c[i] = Half - 1 THEN U64AddAt([c EXCEPT ![i] = 0], i + 1)
    ELSE [c EXCEPT ![i] = c[i] + 1]

RECURSIVE U64SubAt(_, _)
U64SubAt(c, i) ==
    IF i > 4 THEN c
    ELSE IF c[i] = 0 THEN U64SubAt([c EXCEPT ![i] = Half - 1], i + 1)
    ELSE [c EXCEPT ![i] = c[i] - 1]

FetchAdd(c) == U64AddAt(c, 1)

FetchSub(c) == U64SubAt(c, 1)

\* a natural below 2^31 as a size_t
U64OfNat(n) == <<n % Half, n \div Half, 0, 0>>

\* c <= n for a natural n below 2^31
U64LeqNat(c, n) == c[4] = 0 /\ c[3] = 0 /\ c[2] <= n \div Half /\ (c[2] = n \div Half => c[1] <= n % Half)

\* ------------------------------------------------------------ inputs

\* Keys and values the handlers are called with.  "a" and "c" share the start
\* index of a 2-slot table, "a" and "b" that of a 3-slot table.
KeyA == <<97>>

KeyB == <<98>>

KeyC == <<99>>

\* "a\0b": a JavaScript string may hold U+0000, and Utf8Value() keeps it.
KeyNul == <<97, 0, 98>>

\* Keys of length MAX_KEY_SIZE - 1 (the longest accepted) and MAX_KEY_SIZE.
KeyLongest == [i \in 1..(MAX_KEY_SIZE - 1) |-> 107]

KeyTooLong == [i \in 1..MAX_KEY_SIZE |-> 107]

Val1 == <<49>>

Val2 == <<50>>

\* "1\0" followed by "2"
ValNul == <<49, 0, 50>>

ValLongest == [i \in 1..(MAX_VALUE_SIZE - 1) |-> 118]

\* MAX_VALUE_SIZE - 1 bytes, the second of them NUL
ValLongestNul == [i \in 1..(MAX_VALUE_SIZE - 1) |-> IF i = 2 THEN 0 ELSE 118]

ValTooLong == [i \in 1..MAX_VALUE_SIZE |-> 118]

Keys == {KeyA, KeyB, KeyC, KeyNul, KeyLongest, KeyTooLong}

Values == {Val1, Val2, ValNul, ValLongest, ValLongestNul, ValTooLong}

\* The start index of every key in every capacity, computed once.
StartIndexOf == [k \in Keys |-> [m \in 1..(MaxCapacity + 1) |-> StartIndex(k, m)]]

\* hash % header_->max_keys
StartOf(key, max_keys) ==
    IF key \in Keys /\ max_keys \in 1..(MaxCapacity + 1)
    THEN StartIndexOf[key][max_keys]
    ELSE StartIndex(key, max_keys)

\* ------------------------------------------------------------ segment

\* No process: the owner of a free mutex.
NoProc == 0

\* A slot as memset(shm_ptr_, 0, shm_size_) leaves it and as the creator's loop
\* initialises it: not occupied, buffers zeroed, mutex unlocked.
EmptySlot == [occupied |-> FALSE, key |-> <<>>, value |-> <<>>, mutex |-> NoProc]

\* The mapped region after the creator's initialisation with max_keys slots.
\* Slot i of the code (0-based) is slots[i + 1].  by_persist is no memory of the
\* region: it records the persist argument of the Open that initialised it.
NewSegment(max_keys) ==
    [ st_size      |-> HeaderSize + max_keys * SlotSize,
      by_persist   |-> FALSE,
      max_keys     |-> max_keys,
      num_entries  |-> U64Zero,
      global_mutex |-> NoProc,
      slots        |-> [i \in 1..max_keys |-> EmptySlot] ]

SlotAt(seg, index) == seg.slots[index + 1]

\* (start_index + i) % header_->max_keys
ProbeIndex(seg, start, i) == (start + i) % seg.max_keys

\* ------------------------------------------------------------ slot visits

\* Set's test on a locked slot: empty, or holding the same key.
SetEligible(slot, key) ==
    ~slot.occupied \/ StrncmpEq(slot.key, key, MAX_KEY_SIZE)

\* Set's writes to an eligible slot (key, value, occupied flag).
SetWrite(slot, key, value) ==
    [slot EXCEPT !.key = Strncpy(key, MAX_KEY_SIZE - 1),
                 !.value = Strncpy(value, MAX_VALUE_SIZE - 1),
                 !.occupied = TRUE]

\* The test of Get, Delete and Has on a locked slot.
Matches(slot, key) ==
    slot.occupied /\ StrncmpEq(slot.key, key, MAX_KEY_SIZE)

\* Delete's and Clear's writes to a slot: flag cleared, both buffers zeroed.
Erase(slot) == [slot EXCEPT !.occupied = FALSE, !.key = <<>>, !.value = <<>>]

\* key.length() >= MAX_KEY_SIZE || value.length() >= MAX_VALUE_SIZE
SetRejects(key, value) == Len(key) >= MAX_KEY_SIZE \/ Len(value) >= MAX_VALUE_SIZE

\* key.length() >= MAX_KEY_SIZE
KeyRejected(key) == Len(key) >= MAX_KEY_SIZE

\* ------------------------------------------------------------ whole handlers
\* A handler run with no other process inside the table: every mutex it
\* takes is free and is released before the next one is taken.

RECURSIVE SetScan(_, _, _, _, _)
SetScan(seg, key, value, start, i) ==
    IF i >= seg.max_keys THEN [seg |-> seg, ret |-> FALSE]
    ELSE LET index == ProbeIndex(seg, start, i)
             slot  == SlotAt(seg, index)
         IN  IF SetEligible(slot, key)
             THEN [seg |-> [seg EXCEPT
                              !.slots[index + 1] = SetWrite(slot, key, value),
                              !.num_entries = IF slot.occupied THEN @ ELSE FetchAdd(@)],
                   ret |-> TRUE]
             ELSE SetScan(seg, key, value, start, i + 1)

SetOp(seg, key, value) ==
    IF SetRejects(key, value) THEN [seg |-> seg, ret |-> FALSE]
    ELSE SetScan(seg, key, value, StartOf(key, seg.max_keys), 0)

Undefined == [found |-> FALSE, value |-> <<>>]

RECURSIVE GetScan(_, _, _, _)
GetScan(seg, key, start, i) ==
    IF i >= seg.max_keys THEN Undefined
    ELSE LET slot == SlotAt(seg, ProbeIndex(seg, start, i))
         IN  IF Matches(slot, key)
             THEN [found |-> TRUE, value |-> CStr(slot.value)]
             ELSE GetScan(seg, key, start, i + 1)

GetOp(seg, key) ==
    IF KeyRejected(key) THEN Undefined
    ELSE GetScan(seg, key, StartOf(key, seg.max_keys), 0)

RECURSIVE DeleteScan(_, _, _, _)
DeleteScan(seg, key, start, i) ==
    IF i >= seg.max_keys THEN [seg |-> seg, ret |-> FALSE]
    ELSE LET index == ProbeIndex(seg, start, i)
             slot  == SlotAt(seg, index)
         IN  IF Matches(slot, key)
             THEN [seg |-> [seg EXCEPT !.slots[index + 1] = Erase(slot),
                                       !.num_entries = FetchSub(@)],
                   ret |-> TRUE]
             ELSE DeleteScan(seg, key, start, i + 1)

DeleteOp(seg, key) ==
    IF KeyRejected(key) THEN [seg |-> seg, ret |-> FALSE]
    ELSE DeleteScan(seg, key, StartOf(key, seg.max_keys), 0)

RECURSIVE HasScan(_, _, _, _)
HasScan(seg, key, start, i) ==
    IF i >= seg.max_keys THEN FALSE
    ELSE IF Matches(SlotAt(seg, ProbeIndex(seg, start, i)), key) THEN TRUE
    ELSE HasScan(seg, key, start, i + 1)

HasOp(seg, key) ==
    IF KeyRejected(key) THEN FALSE
    ELSE HasScan(seg, key, StartOf(key, seg.max_keys), 0)

\* Keys(): the keys of the occupied slots, in slot order.
RECURSIVE KeysScan(_, _)
KeysScan(seg, i) ==
    IF i >= seg.max_keys THEN <<>>
    ELSE (IF SlotAt(seg, i).occupied THEN <<CStr(SlotAt(seg, i).key)>> ELSE <<>>)
         \o KeysScan(seg, i + 1)

KeysOp(seg) == KeysScan(seg, 0)

\* Entries(): the (key, value) pairs of the occupied slots, in slot order.
RECURSIVE EntriesScan(_, _)
EntriesScan(seg, i) ==
    IF i >= seg.max_keys THEN <<>>
    ELSE (IF SlotAt(seg, i).occupied
          THEN << <<CStr(SlotAt(seg, i).key), CStr(SlotAt(seg, i).value)>> >>
          ELSE <<>>)
         \o EntriesScan(seg, i + 1)

EntriesOp(seg) == EntriesScan(seg, 0)

\* Clear() without its final num_entries.store(0).
ClearOpKeepsCount(seg) ==
    [seg EXCEPT !.slots = [i \in DOMAIN seg.slots |->
                             IF i <= seg.max_keys /\ seg.slots[i].occupied
                             THEN Erase(seg.slots[i])
                             ELSE seg.slots[i]]]

\* Clear(): every occupied slot erased, then the counter stored as 0.
ClearOp(seg) ==
    [seg EXCEPT !.slots = [i \in DOMAIN seg.slots |->
                             IF i <= seg.max_keys /\ seg.slots[i].occupied
                             THEN Erase(seg.slots[i])
                             ELSE seg.slots[i]],
                !.num_entries = U64Zero]

\* Size(): header_->num_entries.load()
SizeOp(seg) == seg.num_entries

\* ------------------------------------------------------------ state

VARIABLES
    shm_name,   \* the object linked under the name in the OS namespace, or NoObj
    segs,       \* the contents of every shared-memory object
    fds,        \* per process: the object its open descriptor refers to, or NoObj
    maps,       \* per process: the object its mapping refers to, or NoObj
    inst,       \* per process: the fields of its FastShmCache instance
    proc,       \* per process: the handler it is inside, its locals and its result
    before      \* the two racing calls and the table as it was when they began

vars == <<shm_name, segs, fds, maps, inst, proc, before>>

NoObj == 0

\* One object per process that may create one, and one more.
ObjIds == 1..(NumProcs + 1)

\* A shared-memory object as shm_open(O_CREAT) makes it: size 0, no memory.
FreshObj ==
    [ st_size |-> 0, by_persist |-> FALSE, max_keys |-> 0, num_entries |-> U64Zero,
      global_mutex |-> NoProc, slots |-> <<>> ]

\* shm_ptr_ values that are no mapping.
NullPtr == 0

MapFailed == -1

\* The fields as the constructor's initialiser list leaves them.  "life" is the
\* instance's place in its lifetime: none, the system call its constructor is
\* about to make, open, or failed (the constructor threw).  max_keys and persist
\* are the constructor's arguments while it runs.
NoInstance ==
    [ life |-> "none", shm_ptr_ |-> NullPtr, shm_size_ |-> 0, shm_fd_ |-> -1,
      is_creator_ |-> FALSE, persist_ |-> FALSE, named |-> FALSE,
      max_keys |-> 0, persist |-> FALSE ]

\* sizeof(SharedMemoryHeader) + (max_keys * sizeof(CacheSlot))
ShmSize(max_keys) == HeaderSize + max_keys * SlotSize

\* An instance after InitializeSharedMemory returned true on object o.
OpenInstance(o, max_keys, creator, persist) ==
    [ life |-> "open", shm_ptr_ |-> o, shm_size_ |-> ShmSize(max_keys), shm_fd_ |-> o,
      is_creator_ |-> creator, persist_ |-> persist, named |-> TRUE,
      max_keys |-> 0, persist |-> FALSE ]

\* A process outside the handlers.
Idle ==
    [ pc |-> "idle", op |-> "none", key |-> <<>>, value |-> <<>>,
      i |-> 0, start |-> 0, was_new |-> FALSE, out |-> <<>>, ret |-> FALSE ]

\* No two calls have been started together.
NoRace ==
    [ on |-> FALSE, racers |-> {}, key |-> [p \in Procs |-> <<>>],
      value |-> [p \in Procs |-> <<>>], seg |-> FreshObj ]

\* The segment process p's header_ and slots_ point into.
Seg(p) == segs[inst[p].shm_ptr_]

IsOpen(p) == inst[p].life = "open"

\* Every process is outside the handlers.
Quiet == \A q \in Procs : proc[q].pc = "idle"

\* ------------------------------------------------------------ one caller
\* Process 1 has created a table of some capacity; handlers run one at a time,
\* each as a whole.  The handlers that only read leave the state as it is; what
\* they return is GetOp, HasOp, KeysOp, EntriesOp and SizeOp of the state.

Init ==
    \E c \in Capacities :
        /\ shm_name = 1
        /\ segs = [o \in ObjIds |-> IF o = 1 THEN NewSegment(c) ELSE FreshObj]
        /\ fds = [p \in Procs |-> IF p = 1 THEN 1 ELSE NoObj]
        /\ maps = [p \in Procs |-> IF p = 1 THEN 1 ELSE NoObj]
        /\ inst = [p \in Procs |-> IF p = 1 THEN OpenInstance(1, c, TRUE, FALSE)
                                   ELSE NoInstance]
        /\ proc = [p \in Procs |-> Idle]
        /\ before = NoRace

Set(p, key, value) ==
    /\ IsOpen(p) /\ Quiet
    /\ segs' = [segs EXCEPT ![inst[p].shm_ptr_] = SetOp(Seg(p), key, value).seg]
    /\ UNCHANGED <<shm_name, fds, maps, inst, proc, before>>

Get(p, key) ==
    /\ IsOpen(p) /\ Quiet
    /\ GetOp(Seg(p), key) \in [found : BOOLEAN, value : Seq(Byte)]
    /\ UNCHANGED vars

Delete(p, key) ==
    /\ IsOpen(p) /\ Quiet
    /\ segs' = [segs EXCEPT ![inst[p].shm_ptr_] = DeleteOp(Seg(p), key).seg]
    /\ UNCHANGED <<shm_name, fds, maps, inst, proc, before>>

Has(p, key) ==
    /\ IsOpen(p) /\ Quiet
    /\ HasOp(Seg(p), key) \in BOOLEAN
    /\ UNCHANGED vars

KeysCall(p) ==
    /\ IsOpen(p) /\ Quiet
    /\ Len(KeysOp(Seg(p))) <= Seg(p).max_keys
    /\ UNCHANGED vars

EntriesCall(p) ==
    /\ IsOpen(p) /\ Quiet
    /\ Len(EntriesOp(Seg(p))) <= Seg(p).max_keys
    /\ UNCHANGED vars

Clear(p) ==
    /\ IsOpen(p) /\ Quiet
    /\ segs' = [segs EXCEPT ![inst[p].shm_ptr_] = ClearOp(Seg(p))]
    /\ UNCHANGED <<shm_name, fds, maps, inst, proc, before>>

Size(p) ==
    /\ IsOpen(p) /\ Quiet
    /\ SizeOp(Seg(p)) \in Seq(Nat)
    /\ UNCHANGED vars

Next ==
    \E p \in Procs :
        \/ \E key \in Keys, value \in Values : Set(p, key, value)
        \/ \E key \in Keys : Get(p, key)
        \/ \E key \in Keys : Delete(p, key)
        \/ \E key \in Keys : Has(p, key)
        \/ KeysCall(p)
        \/ EntriesCall(p)
        \/ Clear(p)
        \/ Size(p)

Spec == Init /\ [][Next]_vars

\* ------------------------------------------------------------ claims, one caller

\* The table the one caller works on.
Table == Seg(1)

SlotIndices == 0..(Table.max_keys - 1)

\* Keys without a NUL byte.
PlainKeys == {k \in Keys : CStr(k) = k}

\* The number n as the counter holds it.
Count(n) == U64OfNat(n)

\* C1: no two occupied slots hold the same key.
C1_KeysUnique ==
    \A i, j \in SlotIndices :
        (i # j /\ SlotAt(Table, i).occupied /\ SlotAt(Table, j).occupied)
            => SlotAt(Table, i).key # SlotAt(Table, j).key

\* C2: from every reachable table, after a set(k, v) that returned true a
\* delete(k) returns true, and then has(k) is false and get(k) is absent.
C2_DeleteAfterSet ==
    \A k \in Keys, v \in Values :
        LET s == SetOp(Table, k, v)
            d == DeleteOp(s.seg, k)
        IN  s.ret => (d.ret /\ ~HasOp(d.seg, k) /\ ~GetOp(d.seg, k).found)

\* C4: size() is the number of distinct keys k with has(k) true.  (Counted over
\* the keys without a NUL byte: a key with one is the key before it to has.)
C4_SizeCountsKeys ==
    SizeOp(Table) = Count(Cardinality({k \in PlainKeys : HasOp(Table, k)}))

\* C6: for every key shorter than KEY_MAX and value shorter than VALUE_MAX, a
\* set(k, v) that returned true followed by get(k) returns exactly v.
C6_GetAfterSet ==
    \A k \in Keys, v \in Values :
        (Len(k) < MAX_KEY_SIZE /\ Len(v) < MAX_VALUE_SIZE) =>
            LET s == SetOp(Table, k, v)
            IN  s.ret => GetOp(s.seg, k) = [found |-> TRUE, value |-> v]

\* C7: a successful set(k, v) increments size() by one only when has(k) was
\* false, and leaves size() as it is when k was present.
C7_SizeGrowsOnlyForNewKey ==
    \A k \in Keys, v \in Values :
        LET s == SetOp(Table, k, v)
        IN  s.ret => SizeOp(s.seg) = (IF HasOp(Table, k) THEN SizeOp(Table)
                                      ELSE FetchAdd(SizeOp(Table)))

\* Every slot is occupied by a key different from k.
FullOfOthers(seg, k) ==
    \A i \in 0..(seg.max_keys - 1) : SlotAt(seg, i).occupied /\ SlotAt(seg, i).key # k

\* C8: set(k, v) with in-bound lengths returns false exactly when all slots are
\* occupied by keys different from k, and a set that returned false left the table
\* (every key, every value, size()) as it was.
C8_FalseExactlyWhenFull ==
    \A k \in Keys, v \in Values :
        ~SetRejects(k, v) =>
            LET s == SetOp(Table, k, v)
            IN  /\ (~s.ret) = FullOfOthers(Table, k)
                /\ ~s.ret => s.seg = Table

\* Some occupied slot of seg holds exactly key k and value v.
Stored(seg, k, v) ==
    \E i \in 0..(seg.max_keys - 1) :
        SlotAt(seg, i).occupied /\ SlotAt(seg, i).key = k /\ SlotAt(seg, i).value = v

\* C9: an oversize key or value is rejected with the table unchanged; a key of
\* KEY_MAX-1 bytes with a value of VALUE_MAX-1 bytes is accepted when a slot is
\* free for it and then stored in full; get, has and delete of an oversize key
\* return absent/false and change nothing.
C9_LengthBoundary ==
    \A k \in Keys, v \in Values :
        LET s == SetOp(Table, k, v)
        IN  /\ SetRejects(k, v) => (~s.ret /\ s.seg = Table)
            /\ (Len(k) = MAX_KEY_SIZE - 1 /\ Len(v) = MAX_VALUE_SIZE - 1 /\ s.ret)
                   => Stored(s.seg, k, v)
            /\ KeyRejected(k) =>
                   /\ GetOp(Table, k) = Undefined
                   /\ ~HasOp(Table, k)
                   /\ DeleteOp(Table, k) = [seg |-> Table, ret |-> FALSE]

\* C12: from every reachable table, after clear() size() is 0, every slot is
\* unoccupied, and has(k) is false and get(k) absent for every key k that was
\* present before the call.
C12_ClearEmpties ==
    LET c == ClearOp(Table)
    IN  /\ SizeOp(c) = U64Zero
        /\ \A i \in SlotIndices : ~SlotAt(c, i).occupied
        /\ \A k \in Keys : HasOp(Table, k) => (~HasOp(c, k) /\ ~GetOp(c, k).found)

\* A table with every slot occupied, two of them by the same key, that clear()
\* empties.
C12_ClearOfFullTable ==
    /\ \A i \in SlotIndices : SlotAt(Table, i).occupied
    /\ \E i, j \in SlotIndices : i # j /\ SlotAt(Table, i).key = SlotAt(Table, j).key
    /\ \E k \in Keys : HasOp(Table, k) /\ ~HasOp(ClearOp(Table), k)
    /\ SizeOp(Table) # U64Zero /\ SizeOp(ClearOp(Table)) = U64Zero

\* Some occupied slot of seg holds exactly key k.
Holds(seg, k) ==
    \E i \in 0..(seg.max_keys - 1) : SlotAt(seg, i).occupied /\ SlotAt(seg, i).key = k

\* C20: in every reachable table, for every in-bound key k, has(k) is true,
\* get(k) returns a value and delete(k) returns true if and only if some
\* occupied slot holds k (wherever in the probe sequence, holes or not).
C20_FoundIffHeld ==
    \A k \in Keys :
        ~KeyRejected(k) =>
            /\ HasOp(Table, k) = Holds(Table, k)
            /\ GetOp(Table, k).found = Holds(Table, k)
            /\ DeleteOp(Table, k).ret = Holds(Table, k)

\* ------------------------------------------------------------ what does hold, one caller
\* With keys and values that hold no NUL byte, set then get returns the value,
\* set returns false exactly when the table is full of other keys, and the
\* longest key and value are stored in full.

PlainValues == {v \in Values : CStr(v) = v}

PlainGetAfterSet ==
    \A k \in PlainKeys, v \in PlainValues :
        LET s == SetOp(Table, k, v)
        IN  s.ret => GetOp(s.seg, k) = [found |-> TRUE, value |-> v]

PlainFalseExactlyWhenFull ==
    \A k \in PlainKeys, v \in PlainValues :
        ~SetRejects(k, v) =>
            LET s == SetOp(Table, k, v)
            IN  /\ (~s.ret) = FullOfOthers(Table, k)
                /\ ~s.ret => s.seg = Table

PlainLengthBoundary ==
    \A k \in PlainKeys, v \in PlainValues :
        LET s == SetOp(Table, k, v)
        IN  /\ SetRejects(k, v) => (~s.ret /\ s.seg = Table)
            /\ (Len(k) = MAX_KEY_SIZE - 1 /\ Len(v) = MAX_VALUE_SIZE - 1 /\ s.ret)
                   => Stored(s.seg, k, v)

\* A key with no NUL byte is found by has, get and delete exactly when some
\* occupied slot holds it: the scans pass over unoccupied slots.
PlainFoundIffHeld ==
    \A k \in PlainKeys :
        ~KeyRejected(k) =>
            /\ HasOp(Table, k) = Holds(Table, k)
            /\ GetOp(Table, k).found = Holds(Table, k)
            /\ DeleteOp(Table, k).ret = Holds(Table, k)

\* ------------------------------------------------------------ handlers, step by step
\* What a process does between two points where another process may run: taking
\* a mutex (which waits while another process holds it), the work on the locked
\* slot, the atomic update of the counter, releasing the mutex.

\* The slot index process p is at: (start_index + i) % max_keys for the probing
\* handlers, i for Keys, Entries and Clear.
AtIndex(p) ==
    IF proc[p].op \in {"keys", "entries", "clear"} THEN proc[p].i
    ELSE ProbeIndex(Seg(p), proc[p].start, proc[p].i)

AtSlot(p) == SlotAt(Seg(p), AtIndex(p))

\* segs with process p's current slot replaced by slot.
WithSlot(p, slot) ==
    [segs EXCEPT ![inst[p].shm_ptr_].slots[AtIndex(p) + 1] = slot]

At(p, pc) == IsOpen(p) /\ proc[p].pc = pc

Goto(p, pc) == proc' = [proc EXCEPT ![p].pc = pc]

\* The handler returns ret: its locals are gone, its result stays until the
\* process's next call.
Return(p, ret) == proc' = [proc EXCEPT ![p] = [Idle EXCEPT !.ret = ret]]

\* pthread_mutex_lock(&slot.mutex)
LockSlot(p, from, to) ==
    /\ At(p, from)
    /\ AtSlot(p).mutex = NoProc
    /\ segs' = WithSlot(p, [AtSlot(p) EXCEPT !.mutex = p])
    /\ Goto(p, to)
    /\ UNCHANGED <<shm_name, fds, maps, inst, before>>

\* pthread_mutex_unlock(&slot.mutex) at the end of the loop body, ++i, and the
\* loop test: on to the next slot, or out of the loop.
UnlockSlotAndAdvance(p, from, again, after) ==
    /\ At(p, from)
    /\ segs' = WithSlot(p, [AtSlot(p) EXCEPT !.mutex = NoProc])
    /\ proc' = [proc EXCEPT ![p].i = @ + 1,
                            ![p].pc = IF proc[p].i + 1 < Seg(p).max_keys
                                      THEN again ELSE after]
    /\ UNCHANGED <<shm_name, fds, maps, inst, before>>

\* pthread_mutex_unlock(&slot.mutex) followed by "return true".
UnlockSlotAndReturn(p, from) ==
    /\ At(p, from)
    /\ segs' = WithSlot(p, [AtSlot(p) EXCEPT !.mutex = NoProc])
    /\ Return(p, TRUE)
    /\ UNCHANGED <<shm_name, fds, maps, inst, before>>

\* The loop is over without a hit: "return false".
ReturnFalse(p, from) ==
    /\ At(p, from)
    /\ Return(p, FALSE)
    /\ UNCHANGED <<shm_name, segs, fds, maps, inst, before>>

\* Set: the length test, the hash, and the loop's first test.
SetEntered(p, key, value) ==
    [ Idle EXCEPT !.op = "set", !.key = key, !.value = value,
                  !.start = IF SetRejects(key, value) THEN 0
                            ELSE StartOf(key, Seg(p).max_keys),
                  !.pc = IF SetRejects(key, value) THEN "idle" ELSE "set_lock" ]

SetBegin(p, key, value) ==
    /\ At(p, "idle")
    /\ proc' = [proc EXCEPT ![p] = SetEntered(p, key, value)]
    /\ UNCHANGED <<shm_name, segs, fds, maps, inst, before>>

SetLock(p) == LockSlot(p, "set_lock", "set_test")

\* The test on the locked slot and, when it passes, the writes to the slot.
SetTest(p) ==
    /\ At(p, "set_test")
    /\ IF SetEligible(AtSlot(p), proc[p].key)
       THEN /\ segs' = WithSlot(p, SetWrite(AtSlot(p), proc[p].key, proc[p].value))
            /\ proc' = [proc EXCEPT ![p].was_new = ~AtSlot(p).occupied,
                                    ![p].pc = "set_count"]
       ELSE /\ Goto(p, "set_next")
            /\ UNCHANGED segs
    /\ UNCHANGED <<shm_name, fds, maps, inst, before>>

\* if (was_new) header_->num_entries.fetch_add(1)
SetCount(p) ==
    /\ At(p, "set_count")
    /\ segs' = [segs EXCEPT ![inst[p].shm_ptr_].num_entries =
                               IF proc[p].was_new THEN FetchAdd(@) ELSE @]
    /\ Goto(p, "set_done")
    /\ UNCHANGED <<shm_name, fds, maps, inst, before>>

SetDone(p) == UnlockSlotAndReturn(p, "set_done")

SetNext(p) == UnlockSlotAndAdvance(p, "set_next", "set_lock", "set_full")

SetFull(p) == ReturnFalse(p, "set_full")

\* Delete
DeleteBegin(p, key) ==
    /\ At(p, "idle")
    /\ proc' = [proc EXCEPT ![p] =
          [ Idle EXCEPT !.op = "delete", !.key = key,
                        !.start = IF KeyRejected(key) THEN 0
                                  ELSE StartOf(key, Seg(p).max_keys),
                        !.pc = IF KeyRejected(key) THEN "idle" ELSE "del_lock" ]]
    /\ UNCHANGED <<shm_name, segs, fds, maps, inst, before>>

DeleteLock(p) == LockSlot(p, "del_lock", "del_test")

\* The test on the locked slot and, when it passes, the flag and both memsets.
DeleteTest(p) ==
    /\ At(p, "del_test")
    /\ IF Matches(AtSlot(p), proc[p].key)
       THEN /\ segs' = WithSlot(p, Erase(AtSlot(p)))
            /\ Goto(p, "del_count")
       ELSE /\ Goto(p, "del_next")
            /\ UNCHANGED segs
    /\ UNCHANGED <<shm_name, fds, maps, inst, before>>

\* header_->num_entries.fetch_sub(1)
DeleteCount(p) ==
    /\ At(p, "del_count")
    /\ segs' = [segs EXCEPT ![inst[p].shm_ptr_].num_entries = FetchSub(@)]
    /\ Goto(p, "del_done")
    /\ UNCHANGED <<shm_name, fds, maps, inst, before>>

DeleteDone(p) == UnlockSlotAndReturn(p, "del_done")

DeleteNext(p) == UnlockSlotAndAdvance(p, "del_next", "del_lock", "del_miss")

DeleteMiss(p) == ReturnFalse(p, "del_miss")

\* Clear: pthread_mutex_lock(&header_->global_mutex)
ClearBegin(p) ==
    /\ At(p, "idle")
    /\ Seg(p).global_mutex = NoProc
    /\ segs' = [segs EXCEPT ![inst[p].shm_ptr_].global_mutex = p]
    /\ proc' = [proc EXCEPT ![p] =
          [ Idle EXCEPT !.op = "clear",
                        !.pc = IF 0 < Seg(p).max_keys THEN "clear_lock" ELSE "clear_store" ]]
    /\ UNCHANGED <<shm_name, fds, maps, inst, before>>

ClearLock(p) == LockSlot(p, "clear_lock", "clear_slot")

\* The locked slot, when occupied, has its flag cleared and its buffers zeroed.
ClearSlot(p) ==
    /\ At(p, "clear_slot")
    /\ segs' = WithSlot(p, IF AtSlot(p).occupied THEN Erase(AtSlot(p)) ELSE AtSlot(p))
    /\ Goto(p, "clear_next")
    /\ UNCHANGED <<shm_name, fds, maps, inst, before>>

ClearNext(p) == UnlockSlotAndAdvance(p, "clear_next", "clear_lock", "clear_store")

\* header_->num_entries.store(0)
ClearStore(p) ==
    /\ At(p, "clear_store")
    /\ segs' = [segs EXCEPT ![inst[p].shm_ptr_].num_entries = U64Zero]
    /\ Goto(p, "clear_done")
    /\ UNCHANGED <<shm_name, fds, maps, inst, before>>

\* pthread_mutex_unlock(&header_->global_mutex) and the return.
ClearDone(p) ==
    /\ At(p, "clear_done")
    /\ segs' = [segs EXCEPT ![inst[p].shm_ptr_].global_mutex = NoProc]
    /\ Return(p, TRUE)
    /\ UNCHANGED <<shm_name, fds, maps, inst, before>>

SetSteps(p) ==
    SetLock(p) \/ SetTest(p) \/ SetCount(p) \/ SetDone(p) \/ SetNext(p) \/ SetFull(p)

DeleteSteps(p) ==
    \/ DeleteLock(p) \/ DeleteTest(p) \/ DeleteCount(p)
    \/ DeleteDone(p) \/ DeleteNext(p) \/ DeleteMiss(p)

ClearSteps(p) ==
    ClearLock(p) \/ ClearSlot(p) \/ ClearNext(p) \/ ClearStore(p) \/ ClearDone(p)

\* ------------------------------------------------------------ several callers
\* Every process is attached to one table (process 1 created it); each calls
\* Set, Delete and Clear, and the steps of the calls interleave.

\* Capacity of the table the processes share.
ConcCapacity == 2

ConcKeys == {KeyA, KeyB, KeyC}

ConcValues == {Val1, Val2}

InitConc ==
    /\ shm_name = 1
    /\ segs = [o \in ObjIds |-> IF o = 1 THEN NewSegment(ConcCapacity) ELSE FreshObj]
    /\ fds = [p \in Procs |-> 1]
    /\ maps = [p \in Procs |-> 1]
    /\ inst = [p \in Procs |-> OpenInstance(1, ConcCapacity, p = 1, FALSE)]
    /\ proc = [p \in Procs |-> Idle]
    /\ before = NoRace

NextConc ==
    \E p \in Procs :
        \/ \E key \in ConcKeys, value \in ConcValues : SetBegin(p, key, value)
        \/ \E key \in ConcKeys : DeleteBegin(p, key)
        \/ ClearBegin(p)
        \/ SetSteps(p)
        \/ DeleteSteps(p)
        \/ ClearSteps(p)

SpecConc == InitConc /\ [][NextConc]_vars

\* C3: the live-entry counter is at most the capacity (and, being unsigned, at
\* least 0: a decrement of 0 wraps to 2^64 - 1).
C3_CounterInRange ==
    U64LeqNat(Table.num_entries, Table.max_keys)

\* C14: whenever no process is inside Set, Delete or Clear, the live-entry
\* counter equals the number of slots whose occupancy flag is true.
C14_CounterMatchesSlotsAtRest ==
    Quiet => Table.num_entries = Count(Cardinality({i \in SlotIndices : SlotAt(Table, i).occupied}))

\* ------------------------------------------------------------ two calls at once
\* One caller brings the table into some state, call after call; then two
\* processes call Set together, on different keys, with two slots unoccupied
\* and nothing else running, and the steps of the two calls interleave.

RaceKeys == {KeyA, KeyB, KeyC, KeyNul}

RaceValues == {Val1, Val2}

InitRace ==
    \E c \in Capacities :
        /\ shm_name = 1
        /\ segs = [o \in ObjIds |-> IF o = 1 THEN NewSegment(c) ELSE FreshObj]
        /\ fds = [p \in Procs |-> 1]
        /\ maps = [p \in Procs |-> 1]
        /\ inst = [p \in Procs |-> OpenInstance(1, c, p = 1, FALSE)]
        /\ proc = [p \in Procs |-> Idle]
        /\ before = NoRace

Unoccupied(seg) == {i \in 0..(seg.max_keys - 1) : ~SlotAt(seg, i).occupied}

RaceBegin(p, q, kp, vp, kq, vq) ==
    /\ ~before.on /\ Quiet
    /\ p # q /\ kp # kq
    /\ Cardinality(Unoccupied(Table)) >= 2
    /\ proc' = [proc EXCEPT ![p] = SetEntered(p, kp, vp),
                            ![q] = SetEntered(q, kq, vq)]
    /\ before' = [ on |-> TRUE, racers |-> {p, q},
                   key |-> [NoRace.key EXCEPT ![p] = kp, ![q] = kq],
                   value |-> [NoRace.value EXCEPT ![p] = vp, ![q] = vq],
                   seg |-> Table ]
    /\ UNCHANGED <<shm_name, segs, fds, maps, inst>>

NextRace ==
    \/ \E key \in RaceKeys, value \in RaceValues : ~before.on /\ SetBegin(1, key, value)
    \/ \E key \in RaceKeys : ~before.on /\ Delete(1, key)
    \/ ~before.on /\ Clear(1)
    \/ \E p, q \in Procs : \E kp, kq \in RaceKeys : \E vp, vq \in RaceValues :
           RaceBegin(p, q, kp, vp, kq, vq)
    \/ \E p \in Procs : SetSteps(p)

SpecRace == InitRace /\ [][NextRace]_vars

\* Both racing calls have returned.
RaceOver == before.on /\ Quiet

\* C10: both calls return true, each key is then retrievable with its own
\* value, and size() has grown by exactly 2.
C10_BothSetsLand ==
    RaceOver =>
        /\ \A p \in before.racers :
               /\ proc[p].ret
               /\ GetOp(Table, before.key[p]) = [found |-> TRUE, value |-> before.value[p]]
        /\ SizeOp(Table) = FetchAdd(FetchAdd(SizeOp(before.seg)))

\* What does hold: with two keys that hold no NUL byte and were both absent
\* beforehand, both calls land.
PlainRaceLands ==
    (RaceOver /\ \A p \in before.racers :
                     CStr(before.key[p]) = before.key[p] /\ ~HasOp(before.seg, before.key[p]))
        => /\ \A p \in before.racers :
                  /\ proc[p].ret
                  /\ GetOp(Table, before.key[p]) = [found |-> TRUE, value |-> before.value[p]]
           /\ SizeOp(Table) = FetchAdd(FetchAdd(SizeOp(before.seg)))

\* ------------------------------------------------------------ two calls on one key
\* As above, but the two processes call Set together on the same key, which the
\* table does not hold.

SameKeyRaceBegin(p, q, key, vp, vq) ==
    /\ ~before.on /\ Quiet
    /\ p # q
    /\ ~HasOp(Table, key) /\ ~Holds(Table, key)
    /\ proc' = [proc EXCEPT ![p] = SetEntered(p, key, vp),
                            ![q] = SetEntered(q, key, vq)]
    /\ before' = [ on |-> TRUE, racers |-> {p, q},
                   key |-> [NoRace.key EXCEPT ![p] = key, ![q] = key],
                   value |-> [NoRace.value EXCEPT ![p] = vp, ![q] = vq],
                   seg |-> Table ]
    /\ UNCHANGED <<shm_name, segs, fds, maps, inst>>

NextSameKey ==
    \/ \E key \in RaceKeys, value \in RaceValues : ~before.on /\ SetBegin(1, key, value)
    \/ \E key \in RaceKeys : ~before.on /\ Delete(1, key)
    \/ ~before.on /\ Clear(1)
    \/ \E p, q \in Procs : \E key \in RaceKeys : \E vp, vq \in RaceValues :
           SameKeyRaceBegin(p, q, key, vp, vq)
    \/ \E p \in Procs : SetSteps(p)

SpecSameKey == InitRace /\ [][NextSameKey]_vars

\* Process p is between pthread_mutex_lock and pthread_mutex_unlock of a slot.
InSlotSection(p) ==
    proc[p].pc \in { "set_test", "set_count", "set_done", "set_next",
                     "del_test", "del_count", "del_done", "del_next",
                     "get_test", "get_done", "get_next",
                     "has_test", "has_done", "has_next",
                     "keys_slot", "keys_next", "entries_slot", "entries_next",
                     "clear_slot", "clear_next" }

\* The slots that hold exactly key k.
SlotsHolding(seg, k) ==
    {i \in 0..(seg.max_keys - 1) : SlotAt(seg, i).occupied /\ SlotAt(seg, i).key = k}

\* C16: no two processes are inside the locked section of the same slot; and
\* when two processes have raced set(k, v1) and set(k, v2) into a table that did
\* not hold k, exactly one slot holds k, with v1 or v2 as its value, and
\* size() has grown by exactly 1.
C16_OneSlotForRacedKey ==
    /\ \A p, q \in Procs :
           (p # q /\ InSlotSection(p) /\ InSlotSection(q)) => AtIndex(p) # AtIndex(q)
    /\ RaceOver =>
           \E p, q \in before.racers :
               /\ p # q
               /\ \E i \in SlotIndices :
                      /\ SlotsHolding(Table, before.key[p]) = {i}
                      /\ SlotAt(Table, i).value \in {before.value[p], before.value[q]}
               /\ SizeOp(Table) = FetchAdd(SizeOp(before.seg))

\* What does hold: for a key with no NUL byte raced into a table with an
\* unoccupied slot.
PlainSameKeyRace ==
    /\ \A p, q \in Procs :
           (p # q /\ InSlotSection(p) /\ InSlotSection(q)) => AtIndex(p) # AtIndex(q)
    /\ (RaceOver /\ Unoccupied(before.seg) # {}
                 /\ \A p \in before.racers : CStr(before.key[p]) = before.key[p]) =>
           \E p, q \in before.racers :
               /\ p # q
               /\ proc[p].ret /\ proc[q].ret
               /\ \E i \in SlotIndices :
                      /\ SlotsHolding(Table, before.key[p]) = {i}
                      /\ SlotAt(Table, i).value \in {before.value[p], before.value[q]}
               /\ SizeOp(Table) = FetchAdd(SizeOp(before.seg))

\* ------------------------------------------------------------ every handler, with its locks
\* All seven handlers step by step on one table, and what a call to
\* pthread_mutex_lock does when another process holds the mutex.

\* Get
GetBegin(p, key) ==
    /\ At(p, "idle")
    /\ proc' = [proc EXCEPT ![p] =
          [ Idle EXCEPT !.op = "get", !.key = key,
                        !.start = IF KeyRejected(key) THEN 0
                                  ELSE StartOf(key, Seg(p).max_keys),
                        !.pc = IF KeyRejected(key) THEN "idle" ELSE "get_lock" ]]
    /\ UNCHANGED <<shm_name, segs, fds, maps, inst, before>>

GetLock(p) == LockSlot(p, "get_lock", "get_test")

\* The test on the locked slot and, when it passes, std::string value(slot.value).
GetTest(p) ==
    /\ At(p, "get_test")
    /\ proc' = [proc EXCEPT
          ![p].out = IF Matches(AtSlot(p), proc[p].key) THEN CStr(AtSlot(p).value) ELSE @,
          ![p].pc  = IF Matches(AtSlot(p), proc[p].key) THEN "get_done" ELSE "get_next"]
    /\ UNCHANGED <<shm_name, segs, fds, maps, inst, before>>

GetDone(p) == UnlockSlotAndReturn(p, "get_done")

GetNext(p) == UnlockSlotAndAdvance(p, "get_next", "get_lock", "get_miss")

GetMiss(p) == ReturnFalse(p, "get_miss")

\* Has
HasBegin(p, key) ==
    /\ At(p, "idle")
    /\ proc' = [proc EXCEPT ![p] =
          [ Idle EXCEPT !.op = "has", !.key = key,
                        !.start = IF KeyRejected(key) THEN 0
                                  ELSE StartOf(key, Seg(p).max_keys),
                        !.pc = IF KeyRejected(key) THEN "idle" ELSE "has_lock" ]]
    /\ UNCHANGED <<shm_name, segs, fds, maps, inst, before>>

HasLock(p) == LockSlot(p, "has_lock", "has_test")

HasTest(p) ==
    /\ At(p, "has_test")
    /\ Goto(p, IF Matches(AtSlot(p), proc[p].key) THEN "has_done" ELSE "has_next")
    /\ UNCHANGED <<shm_name, segs, fds, maps, inst, before>>

HasDone(p) == UnlockSlotAndReturn(p, "has_done")

HasNext(p) == UnlockSlotAndAdvance(p, "has_next", "has_lock", "has_miss")

HasMiss(p) == ReturnFalse(p, "has_miss")

\* Keys: the empty array and the loop's first test.
KeysBegin(p) ==
    /\ At(p, "idle")
    /\ proc' = [proc EXCEPT ![p] =
          [ Idle EXCEPT !.op = "keys",
                        !.pc = IF 0 < Seg(p).max_keys THEN "keys_lock" ELSE "keys_done" ]]
    /\ UNCHANGED <<shm_name, segs, fds, maps, inst, before>>

KeysLock(p) == LockSlot(p, "keys_lock", "keys_slot")

\* keys[key_index++] = slot.key, when the locked slot is occupied.
KeysSlot(p) ==
    /\ At(p, "keys_slot")
    /\ proc' = [proc EXCEPT
          ![p].out = IF AtSlot(p).occupied THEN Append(@, CStr(AtSlot(p).key)) ELSE @,
          ![p].pc  = "keys_next"]
    /\ UNCHANGED <<shm_name, segs, fds, maps, inst, before>>

KeysNext(p) == UnlockSlotAndAdvance(p, "keys_next", "keys_lock", "keys_done")

\* "return keys"
KeysDone(p) ==
    /\ At(p, "keys_done")
    /\ Return(p, TRUE)
    /\ UNCHANGED <<shm_name, segs, fds, maps, inst, before>>

\* Entries
EntriesBegin(p) ==
    /\ At(p, "idle")
    /\ proc' = [proc EXCEPT ![p] =
          [ Idle EXCEPT !.op = "entries",
                        !.pc = IF 0 < Seg(p).max_keys THEN "entries_lock"
                               ELSE "entries_done" ]]
    /\ UNCHANGED <<shm_name, segs, fds, maps, inst, before>>

EntriesLock(p) == LockSlot(p, "entries_lock", "entries_slot")

\* entries[entry_index++] = [slot.key, slot.value], when the locked slot is
\* occupied.
EntriesSlot(p) ==
    /\ At(p, "entries_slot")
    /\ proc' = [proc EXCEPT
          ![p].out = IF AtSlot(p).occupied
                     THEN Append(@, <<CStr(AtSlot(p).key), CStr(AtSlot(p).value)>>)
                     ELSE @,
          ![p].pc  = "entries_next"]
    /\ UNCHANGED <<shm_name, segs, fds, maps, inst, before>>

EntriesNext(p) == UnlockSlotAndAdvance(p, "entries_next", "entries_lock", "entries_done")

\* "return entries"
EntriesDone(p) ==
    /\ At(p, "entries_done")
    /\ Return(p, TRUE)
    /\ UNCHANGED <<shm_name, segs, fds, maps, inst, before>>

\* Clear is entered; its first statement, the lock of the header mutex, is
\* still to come.
ClearCall(p) ==
    /\ At(p, "idle")
    /\ proc' = [proc EXCEPT ![p] = [ Idle EXCEPT !.op = "clear", !.pc = "clear_global" ]]
    /\ UNCHANGED <<shm_name, segs, fds, maps, inst, before>>

\* pthread_mutex_lock(&header_->global_mutex) and the loop's first test.
ClearLockHeader(p) ==
    /\ At(p, "clear_global")
    /\ Seg(p).global_mutex = NoProc
    /\ segs' = [segs EXCEPT ![inst[p].shm_ptr_].global_mutex = p]
    /\ Goto(p, IF 0 < Seg(p).max_keys THEN "clear_lock" ELSE "clear_store")
    /\ UNCHANGED <<shm_name, fds, maps, inst, before>>

\* The positions where a process is about to take a slot mutex.
SlotLockPoints ==
    {"set_lock", "del_lock", "get_lock", "has_lock", "keys_lock", "entries_lock",
     "clear_lock"}

\* The mutex process p is about to take is held by another process.
Contended(p) ==
    \/ proc[p].pc \in SlotLockPoints /\ AtSlot(p).mutex \notin {NoProc, p}
    \/ proc[p].pc = "clear_global" /\ Seg(p).global_mutex \notin {NoProc, p}

\* Every mutex of the table is initialised with pthread_mutex_init(&m, NULL):
\* default attributes, so not PTHREAD_PROCESS_SHARED, and locking it from a
\* second process is undefined.  The lock word lives in the shared region, so
\* the exclusion works; but a process that finds the mutex held goes to sleep
\* on a wait queue private to its own address space, and the holder's unlock
\* wakes only waiters of the holder's address space.  The sleeper is either
\* woken by something else and takes the mutex (LockSlot, ClearLockHeader), or
\* it is never woken.
LostWakeup(p) ==
    /\ IsOpen(p)
    /\ Contended(p)
    /\ Goto(p, "asleep")
    /\ UNCHANGED <<shm_name, segs, fds, maps, inst, before>>

GetSteps(p) ==
    GetLock(p) \/ GetTest(p) \/ GetDone(p) \/ GetNext(p) \/ GetMiss(p)

HasSteps(p) ==
    HasLock(p) \/ HasTest(p) \/ HasDone(p) \/ HasNext(p) \/ HasMiss(p)

KeysSteps(p) ==
    KeysLock(p) \/ KeysSlot(p) \/ KeysNext(p) \/ KeysDone(p)

EntriesSteps(p) ==
    EntriesLock(p) \/ EntriesSlot(p) \/ EntriesNext(p) \/ EntriesDone(p)

LockKeys == {KeyA, KeyTooLong}

LockValues == {Val1}

\* A call begins.
Calls(p) ==
    \/ \E key \in LockKeys, value \in LockValues : SetBegin(p, key, value)
    \/ \E key \in LockKeys : GetBegin(p, key)
    \/ \E key \in LockKeys : DeleteBegin(p, key)
    \/ \E key \in LockKeys : HasBegin(p, key)
    \/ KeysBegin(p)
    \/ EntriesBegin(p)
    \/ ClearCall(p)

\* A call that has begun takes its next step.
Steps(p) ==
    \/ SetSteps(p)
    \/ GetSteps(p)
    \/ DeleteSteps(p)
    \/ HasSteps(p)
    \/ KeysSteps(p)
    \/ EntriesSteps(p)
    \/ ClearLockHeader(p)
    \/ ClearSteps(p)

NextLocks ==
    \E p \in Procs : Calls(p) \/ Steps(p) \/ LostWakeup(p)

\* Every process that can take a step of its call eventually takes one; a
\* process waiting for a mutex that is free again and again eventually takes
\* it.  Nothing obliges a process to begin a call, and nothing wakes a process
\* whose wake-up was lost.
SpecLocks ==
    /\ InitConc
    /\ [][NextLocks]_vars
    /\ \A p \in Procs : SF_vars(Steps(p))

\* The slot mutexes and the header mutex process p holds.
HeldSlots(p) == {i \in SlotIndices : SlotAt(Table, i).mutex = p}

HoldsHeader(p) == Table.global_mutex = p

InCall(p) == proc[p].pc # "idle"

\* C15: a process holds at most one slot mutex at any moment; the header mutex
\* is only ever taken by a process that holds no slot mutex; a process outside
\* every call holds no mutex; and every call that has begun returns.
C15_LocksReleasedAndCallsReturn ==
    /\ [](\A p \in Procs :
             /\ Cardinality(HeldSlots(p)) <= 1
             /\ ~InCall(p) => (HeldSlots(p) = {} /\ ~HoldsHeader(p)))
    /\ [][\A p \in Procs :
             (~HoldsHeader(p) /\ HoldsHeader(p)') => HeldSlots(p) = {}]_vars
    /\ \A p \in Procs : InCall(p) ~> ~InCall(p)

\* What does hold: the lock discipline itself, and that every call returns as
\* long as no process sleeps on a mutex it found held (a process asleep inside
\* Clear keeps the header mutex, and the next Clear waits for it).
PlainLockDiscipline ==
    /\ [](\A p \in Procs :
             /\ Cardinality(HeldSlots(p)) <= 1
             /\ ~InCall(p) => (HeldSlots(p) = {} /\ ~HoldsHeader(p))
             /\ proc[p].pc = "asleep" => HeldSlots(p) = {})
    /\ [][\A p \in Procs :
             (~HoldsHeader(p) /\ HoldsHeader(p)') => HeldSlots(p) = {}]_vars
    /\ \A p \in Procs :
           InCall(p) ~> (~InCall(p) \/ \E q \in Procs : proc[q].pc = "asleep")

\* ------------------------------------------------------------ open and close
\* Instances of one name come and go: each process constructs an instance
\* (InitializeSharedMemory), uses it, and destroys it (CleanupSharedMemory).
\* The handlers run one at a time, each as a whole.

\* The object is the name, a descriptor or a mapping away from being freed.
Referenced(o) ==
    \/ shm_name = o
    \/ \E p \in Procs : fds[p] = o \/ maps[p] = o

\* The object shm_open(O_CREAT) makes when nothing is linked under the name.
NewObj ==
    CHOOSE o \in ObjIds :
        /\ ~Referenced(o)
        /\ \A other \in ObjIds : ~Referenced(other) => o <= other

\* The system calls of InitializeSharedMemory that may fail.
Failures == {"none", "shm_open", "ftruncate", "mmap"}

\* new FastShmCache({name, maxKeys, persist}): the constructor and the whole of
\* InitializeSharedMemory.  "fail" is the system call that fails, if any.
Open(p, max_keys, persist, fail) ==
    LET o       == IF shm_name = NoObj THEN NewObj ELSE shm_name
        creator == segs[o].st_size = 0
        sized   == IF creator
                   THEN [FreshObj EXCEPT !.st_size = ShmSize(max_keys)]
                   ELSE segs[o]
    IN  /\ inst[p].life = "none" /\ Quiet
        /\ fail = "ftruncate" => creator
        /\ CASE fail = "shm_open" ->
                  /\ inst' = [inst EXCEPT ![p] =
                        [NoInstance EXCEPT !.life = "failed", !.named = TRUE,
                                           !.shm_size_ = ShmSize(max_keys)]]
                  /\ UNCHANGED <<shm_name, segs, fds, maps>>
             [] fail = "ftruncate" ->
                  /\ shm_name' = o
                  /\ inst' = [inst EXCEPT ![p] =
                        [NoInstance EXCEPT !.life = "failed", !.named = TRUE,
                                           !.shm_size_ = ShmSize(max_keys),
                                           !.shm_fd_ = o, !.is_creator_ = TRUE]]
                  /\ UNCHANGED <<segs, fds, maps>>
             [] fail = "mmap" ->
                  /\ shm_name' = o
                  /\ segs' = [segs EXCEPT ![o] = sized]
                  /\ inst' = [inst EXCEPT ![p] =
                        [NoInstance EXCEPT !.life = "failed", !.named = TRUE,
                                           !.shm_size_ = ShmSize(max_keys),
                                           !.shm_fd_ = o, !.is_creator_ = creator,
                                           !.shm_ptr_ = MapFailed]]
                  /\ UNCHANGED <<fds, maps>>
             [] OTHER ->
                  /\ shm_name' = o
                  /\ segs' = [segs EXCEPT ![o] =
                        IF creator
                        THEN [NewSegment(max_keys) EXCEPT !.by_persist = persist]
                        ELSE segs[o]]
                  /\ fds' = [fds EXCEPT ![p] = o]
                  /\ maps' = [maps EXCEPT ![p] = o]
                  /\ inst' = [inst EXCEPT ![p] = OpenInstance(o, max_keys, creator, persist)]
        /\ UNCHANGED <<proc, before>>

\* CleanupSharedMemory calls munmap(shm_ptr_, shm_size_).
Unmaps(me) == me.shm_ptr_ # NullPtr /\ me.shm_ptr_ # MapFailed

\* CleanupSharedMemory calls close(shm_fd_).
Closes(me) == me.shm_fd_ # -1

\* CleanupSharedMemory calls shm_unlink(shm_name_).
Unlinks(me) == me.is_creator_ /\ me.named /\ ~me.persist_

\* ~FastShmCache(): the whole of CleanupSharedMemory.  An object that is left
\* with no name, no descriptor and no mapping is freed.
Close(p) ==
    LET me      == inst[p]
        name    == IF Unlinks(me) THEN NoObj ELSE shm_name
        fdsNow  == IF Closes(me) THEN [fds EXCEPT ![p] = NoObj] ELSE fds
        mapsNow == IF Unmaps(me) THEN [maps EXCEPT ![p] = NoObj] ELSE maps
        kept(o) == name = o \/ \E q \in Procs : fdsNow[q] = o \/ mapsNow[q] = o
    IN  /\ me.life \in {"open", "failed"} /\ Quiet
        /\ maps' = mapsNow
        /\ fds' = fdsNow
        /\ shm_name' = name
        /\ segs' = [o \in ObjIds |-> IF kept(o) THEN segs[o] ELSE FreshObj]
        /\ inst' = [inst EXCEPT ![p] = NoInstance]
        /\ UNCHANGED <<proc, before>>

\* hash % header_->max_keys in Set, Get, Delete and Has with a header whose
\* max_keys is 0: the division is undefined.  Where it traps, the process is
\* killed: its descriptor and mapping go, its destructor does not run.  (Where it
\* does not trap, the loop runs zero times and the handler returns false or
\* undefined, as the whole handlers above do.)
DivideByZero(p) ==
    LET fdsNow  == [fds EXCEPT ![p] = NoObj]
        mapsNow == [maps EXCEPT ![p] = NoObj]
        kept(o) == shm_name = o \/ \E q \in Procs : fdsNow[q] = o \/ mapsNow[q] = o
    IN  /\ IsOpen(p) /\ Quiet
        /\ Seg(p).max_keys = 0
        /\ fds' = fdsNow
        /\ maps' = mapsNow
        /\ segs' = [o \in ObjIds |-> IF kept(o) THEN segs[o] ELSE FreshObj]
        /\ inst' = [inst EXCEPT ![p] = NoInstance]
        /\ UNCHANGED <<shm_name, proc, before>>

LifeKeys == {KeyA}

LifeValues == {Val1, Val2}

InitLife ==
    /\ shm_name = NoObj
    /\ segs = [o \in ObjIds |-> FreshObj]
    /\ fds = [p \in Procs |-> NoObj]
    /\ maps = [p \in Procs |-> NoObj]
    /\ inst = [p \in Procs |-> NoInstance]
    /\ proc = [p \in Procs |-> Idle]
    /\ before = NoRace

NextLife ==
    \E p \in Procs :
        \/ \E c \in Capacities, persist \in BOOLEAN, fail \in Failures :
               Open(p, c, persist, fail)
        \/ Close(p)
        \/ \E key \in LifeKeys, value \in LifeValues : Set(p, key, value)
        \/ \E key \in LifeKeys : Get(p, key)
        \/ \E key \in LifeKeys : Delete(p, key)
        \/ DivideByZero(p)

SpecLife == InitLife /\ [][NextLife]_vars

\* C5: two instances open at the same time under the name are mapped onto the
\* same object, and a set that returns true through one is seen by a get
\* through the other.
C5_OpenInstancesShare ==
    \A p, q \in Procs :
        (p # q /\ IsOpen(p) /\ IsOpen(q)) =>
            /\ inst[p].shm_ptr_ = inst[q].shm_ptr_
            /\ \A k \in LifeKeys, v \in LifeValues :
                   LET r == SetOp(Seg(p), k, v)
                       seen == IF inst[q].shm_ptr_ = inst[p].shm_ptr_ THEN r.seg ELSE Seg(q)
                   IN  r.ret => GetOp(seen, k) = [found |-> TRUE, value |-> v]

\* Process p's instance is destroyed in this step and the name, which was
\* linked to an object, is linked to none afterwards.
Removes(p) ==
    /\ inst[p].life # "none" /\ inst'[p].life = "none"
    /\ shm_name # NoObj /\ shm_name' = NoObj

\* C11: a Close removes the named object only when the closing instance created
\* that very object and has persist = false; a segment whose creator was opened
\* with persist = true is never removed; an attacher's Close removes nothing.
C11_RemovedByItsCreatorOnly ==
    [][\A p \in Procs :
          Removes(p) => /\ inst[p].is_creator_
                        /\ inst[p].shm_fd_ = shm_name
                        /\ ~inst[p].persist_
                        /\ ~segs[shm_name].by_persist]_vars

\* C18: every slot an open instance's operations touch lies inside the region
\* it mapped: its mapped size is at least header size + header capacity x slot
\* size.
C18_SlotsInsideMapping ==
    \A p \in Procs :
        IsOpen(p) => inst[p].shm_size_ >= HeaderSize + Seg(p).max_keys * SlotSize

\* C19: the Close that follows a failed Open releases nothing again: it calls
\* no munmap, no close of the descriptor the Open already closed, and no
\* shm_unlink.
C19_TeardownReleasesNothing ==
    [][\A p \in Procs :
          (inst[p].life = "failed" /\ inst'[p].life = "none")
              => (~Unmaps(inst[p]) /\ ~Closes(inst[p]) /\ ~Unlinks(inst[p]))]_vars

\* ------------------------------------------------------------ open, step by step
\* The constructors of several processes interleave at their system calls, while
\* the instances that are open are used (each data handler as a whole) and
\* destroyed.

\* The object process p's descriptor refers to.
Fd(p) == fds[p]

\* The objects after close(shm_fd_) on a failure path: one that is left with
\* no name, no descriptor and no mapping is freed.
DescriptorClosed(p) ==
    [o \in ObjIds |->
        IF shm_name = o \/ \E q \in Procs : (q # p /\ fds[q] = o) \/ maps[q] = o
        THEN segs[o] ELSE FreshObj]

\* The constructor up to shm_name_ and shm_size_.
OpenBegin(p, max_keys, persist) ==
    /\ inst[p].life = "none"
    /\ inst' = [inst EXCEPT ![p] =
          [NoInstance EXCEPT !.life = "shm_open", !.named = TRUE,
                             !.shm_size_ = ShmSize(max_keys),
                             !.max_keys = max_keys, !.persist = persist]]
    /\ UNCHANGED <<shm_name, segs, fds, maps, proc, before>>

\* shm_open(O_CREAT | O_RDWR): opens the object linked under the name, or
\* makes and links a new one of size 0; or fails.
OpenShm(p, ok) ==
    LET o == IF shm_name = NoObj THEN NewObj ELSE shm_name
    IN  /\ inst[p].life = "shm_open"
        /\ IF ok
           THEN /\ shm_name' = o
                /\ fds' = [fds EXCEPT ![p] = o]
                /\ inst' = [inst EXCEPT ![p].shm_fd_ = o, ![p].life = "fstat"]
           ELSE /\ inst' = [inst EXCEPT ![p].life = "failed",
                                        ![p].max_keys = 0, ![p].persist = FALSE]
                /\ UNCHANGED <<shm_name, fds>>
        /\ UNCHANGED <<segs, maps, proc, before>>

\* fstat and the choice of role.
OpenStat(p) ==
    /\ inst[p].life = "fstat"
    /\ inst' = [inst EXCEPT ![p].is_creator_ = (segs[Fd(p)].st_size = 0),
                            ![p].life = IF segs[Fd(p)].st_size = 0
                                        THEN "ftruncate" ELSE "mmap"]
    /\ UNCHANGED <<shm_name, segs, fds, maps, proc, before>>

\* ftruncate(shm_fd_, shm_size_): the object gets that size, and what lay beyond
\* it is gone (slots from index max_keys on read as zero); or it fails and the
\* descriptor is closed.
OpenTruncate(p, ok) ==
    /\ inst[p].life = "ftruncate"
    /\ IF ok
       THEN /\ segs' = [segs EXCEPT ![Fd(p)] =
                  [@ EXCEPT !.st_size = inst[p].shm_size_,
                            !.slots = [i \in DOMAIN @ |->
                                         IF i > inst[p].max_keys THEN EmptySlot ELSE @[i]]]]
            /\ inst' = [inst EXCEPT ![p].life = "mmap"]
            /\ UNCHANGED fds
       ELSE /\ fds' = [fds EXCEPT ![p] = NoObj]
            /\ inst' = [inst EXCEPT ![p].life = "failed",
                                    ![p].max_keys = 0, ![p].persist = FALSE]
            /\ segs' = DescriptorClosed(p)
    /\ UNCHANGED <<shm_name, maps, proc, before>>

\* mmap(NULL, shm_size_, ..., MAP_SHARED, shm_fd_, 0), header_ and slots_; or it
\* fails and the descriptor is closed.
OpenMap(p, ok) ==
    /\ inst[p].life = "mmap"
    /\ IF ok
       THEN /\ maps' = [maps EXCEPT ![p] = Fd(p)]
            /\ inst' = [inst EXCEPT ![p].shm_ptr_ = Fd(p),
                                    ![p].life = IF inst[p].is_creator_ THEN "init" ELSE "return"]
            /\ UNCHANGED <<fds, segs>>
       ELSE /\ fds' = [fds EXCEPT ![p] = NoObj]
            /\ inst' = [inst EXCEPT ![p].shm_ptr_ = MapFailed, ![p].life = "failed",
                                    ![p].max_keys = 0, ![p].persist = FALSE]
            /\ segs' = DescriptorClosed(p)
            /\ UNCHANGED maps
    /\ UNCHANGED <<shm_name, proc, before>>

\* The creator's memset, header and mutex initialisation.
OpenInit(p) ==
    /\ inst[p].life = "init"
    /\ segs' = [segs EXCEPT ![inst[p].shm_ptr_] =
          [NewSegment(inst[p].max_keys) EXCEPT !.st_size = segs[inst[p].shm_ptr_].st_size,
                                               !.by_persist = inst[p].persist]]
    /\ inst' = [inst EXCEPT ![p].life = "return"]
    /\ UNCHANGED <<shm_name, fds, maps, proc, before>>

\* persist_ = persist; return true.
OpenDone(p) ==
    /\ inst[p].life = "return"
    /\ inst' = [inst EXCEPT ![p].persist_ = inst[p].persist, ![p].life = "open",
                            ![p].max_keys = 0, ![p].persist = FALSE]
    /\ UNCHANGED <<shm_name, segs, fds, maps, proc, before>>

OpenSteps(p) ==
    \/ \E ok \in BOOLEAN : OpenShm(p, ok)
    \/ OpenStat(p)
    \/ \E ok \in BOOLEAN : OpenTruncate(p, ok)
    \/ \E ok \in BOOLEAN : OpenMap(p, ok)
    \/ OpenInit(p)
    \/ OpenDone(p)

OpenKeys == {KeyA}

OpenValues == {Val1}

NextOpen ==
    \E p \in Procs :
        \/ \E c \in Capacities, persist \in BOOLEAN : OpenBegin(p, c, persist)
        \/ OpenSteps(p)
        \/ Close(p)
        \/ \E key \in OpenKeys, value \in OpenValues : Set(p, key, value)
        \/ \E key \in OpenKeys : Get(p, key)
        \/ DivideByZero(p)

SpecOpen == InitLife /\ [][NextOpen]_vars

\* Process p's constructor takes the step named by life.
OpenStepAt(p, life) == inst[p].life = life /\ inst'[p].life # life

\* C13: of the Opens on one object exactly one takes the creator role, and the
\* object is sized and its region initialised once: no ftruncate acts on an
\* object that has a size, no initialisation on a region that is initialised.
C13_InitialisedOnce ==
    /\ [](\A p, q \in Procs :
             (p # q /\ inst[p].life \in {"mmap", "init", "return", "open"}
                    /\ inst[q].life \in {"mmap", "init", "return", "open"}
                    /\ inst[p].is_creator_ /\ inst[q].is_creator_)
                 => inst[p].shm_fd_ # inst[q].shm_fd_)
    /\ [][\A p \in Procs :
             /\ (OpenStepAt(p, "ftruncate") /\ inst'[p].life = "mmap")
                    => segs[Fd(p)].st_size = 0
             /\ OpenStepAt(p, "init") => segs[inst[p].shm_ptr_].max_keys = 0]_vars

\* C17: no Open returns before the region is initialised: every open instance
\* reads a header capacity that a creator wrote (at least 1), and no creator
\* initialises a region that an open instance is already working on.
C17_OpenMeansInitialised ==
    /\ [](\A p \in Procs : IsOpen(p) => Seg(p).max_keys \in Capacities)
    /\ [][\A p, q \in Procs :
             OpenStepAt(p, "init") => ~(IsOpen(q) /\ inst[q].shm_ptr_ = inst[p].shm_ptr_)]_vars

====
